---- MODULE Spec2Model ----
(***************************************************************************)
(* Model of the Resource Requirements Collector of nitrictech/cli          *)
(* (pkgplus/collector/service.go): the ServiceRequirements aggregate, its  *)
(* unary handlers Declare and Proxy and its five streaming registration    *)
(* handlers Serve, Schedule, Subscribe, Listen and HandleEvents.           *)
(*                                                                         *)
(* Spec     : handler calls run one after the other, one action per        *)
(*            handler call.                                                *)
(* ConcSpec : several callers run Schedule concurrently, one action per    *)
(*            memory access of the handler (the code takes no lock).       *)
(* ConcServeSpec : the same for Serve.                                     *)
(*                                                                         *)
(* The module also models the provider supervisor of                       *)
(* pkgplus/provider/exec.go (StartProviderExecutable, startProcess, Stop): *)
(*                                                                         *)
(* ProviderSpec : one StartProviderExecutable call, one action per step,   *)
(*                followed by Stop calls on the supervisor it returned.    *)
(*                                                                         *)
(* and the run-status view model of the services TUI (Model, Init, Update, *)
(* NewModel), run by the bubbletea event loop:                             *)
(*                                                                         *)
(* ViewSpec     : service updates sent on the update channel, keys and     *)
(*                other messages, and the Update calls that handle them.   *)
(* ViewLiveSpec : ViewSpec with the event loop's fairness.                 *)
(***************************************************************************)
EXTENDS Integers, Sequences, FiniteSets, TLC

VARIABLES
    serviceName, serviceType,
    routes, schedules, subscriptions, websockets, listeners,
    proxy, apis, apiSecurityDefinition, buckets, collections, topics,
    policies, secrets, errors,
    calls, call,
    pc, local, mapWriters, crashed,
    goos, fileInfo, provProc, lis, cmd, subprocess, startPc, started, stops,
    serviceStatus, localServicesModel, updateChan, stopChan, cmds, msgs, program,
    sentUpdates, handledUpdates, inputs

identity == <<serviceName, serviceType>>
triggers == <<routes, schedules, subscriptions, websockets, listeners>>
declared == <<apis, apiSecurityDefinition, buckets, collections, topics, policies, secrets>>
aggregate == <<identity, triggers, proxy, declared, errors>>
conc == <<pc, local, mapWriters, crashed>>
supervision == <<goos, fileInfo, provProc, lis, cmd, subprocess, startPc, started, stops>>
view == <<serviceStatus, localServicesModel, updateChan, stopChan, cmds, msgs, program,
          sentUpdates, handledUpdates, inputs>>
vars == <<aggregate, calls, call, conc, supervision, view>>

(***************************************************************************)
(* Bounds                                                                  *)
(***************************************************************************)
\* Number of handler calls of one sequential collection run.
MaxCalls == 3
\* Number of concurrent Schedule callers.
NumCallers == 2
\* Number of Stop calls on one supervisor.
MaxStops == 2
\* Number of service updates sent on the update channel.
MaxUpdates == 2
\* Number of keys and other messages the terminal delivers.
MaxInputs == 2

(***************************************************************************)
(* Go values                                                               *)
(***************************************************************************)
\* A nil pointer / nil message content.
Nil == [nil |-> TRUE]

\* make(map[...]...): a map with no keys.
EmptyMap == [k \in {} |-> Nil]

\* m[k] = v
MapPutKeepFirst(m, k, v) ==
    [x \in DOMAIN m \cup {k} |-> IF x \in DOMAIN m THEN m[x] ELSE v]

MapPut(m, k, v) ==
    [x \in DOMAIN m \cup {k} |-> IF x = k THEN v ELSE m[x]]

\* m[k] of a map of slices: the zero value (nil slice) when k is absent.
MapGetSeq(m, k) == IF k \in DOMAIN m THEN m[k] ELSE <<>>

\* lo.Intersect(list1, list2): the elements of list2 that occur in list1.
Intersect(list1, list2) ==
    SelectSeq(list2, LAMBDA x : \E i \in DOMAIN list1 : list1[i] = x)

\* lo.Find(collection, predicate): the first item the predicate holds of
\* and true, or the zero value and false.  matches[i] is the predicate's
\* value at collection[i].
Find(collection, matches) ==
    IF \E i \in DOMAIN collection : matches[i]
    THEN [item |-> collection[CHOOSE i \in DOMAIN collection :
                                /\ matches[i]
                                /\ \A j \in 1..(i - 1) : ~matches[j]],
          found |-> TRUE]
    ELSE [item |-> Nil, found |-> FALSE]

(***************************************************************************)
(* Inputs                                                                  *)
(***************************************************************************)
ServiceNames == {"svc"}
ServiceTypes == {""}

RouteRegistrations ==
    { [api |-> "a1", methods |-> <<"GET">>, path |-> "/x"],
      [api |-> "a1", methods |-> <<"POST", "GET">>, path |-> "/x"],
      [api |-> "a1", methods |-> <<"POST">>, path |-> "/x"],
      [api |-> "a1", methods |-> <<"GET">>, path |-> "/y"],
      [api |-> "a2", methods |-> <<"GET">>, path |-> "/x"] }

Payloads == {"p", "q"}
Hosts == {"h1", "h2"}

\* The registrations a caller may send: two under the first name and one
\* under the second.
ScheduleRegistrations ==
    { [scheduleName |-> n, cadence |-> v] :
        <<n, v>> \in {"s1", "s2"} \X Payloads \ {<<"s2", "q">>} }
TopicRegistrations ==
    { [topicName |-> n, id |-> v] :
        <<n, v>> \in {"t1", "t2"} \X Payloads \ {<<"t2", "q">>} }
StorageRegistrations ==
    { [bucketName |-> n, keyPrefixFilter |-> v] :
        <<n, v>> \in {"b1", "b2"} \X Payloads \ {<<"b2", "q">>} }
WebsocketRegistrations ==
    { [socketName |-> n, eventType |-> e] :
        <<n, e>> \in {"w1", "w2"} \X {"Connect", "Message"} \ {<<"w2", "Message">>} }
ProxyRequests == [host : Hosts]

\* What the first stream.Recv() of a handler yields: a receive failure, a
\* client message whose content is not a registration request, or a
\* registration request.
RecvError == [recv |-> "error"]
OtherMessage == [recv |-> "message", registrationRequest |-> Nil]
Registration(r) == [recv |-> "message", registrationRequest |-> r]
FirstMessages(regs) == {RecvError, OtherMessage} \cup {Registration(r) : r \in regs}

\* msg.GetRegistrationRequest(): nil unless the message's content is a
\* registration request.
GetRegistrationRequest(msg) == msg.registrationRequest

\* resourcespb.ResourceType values; the switch of Declare has no case for the
\* last one.
Function == "Function"
SimpleTypes == {"Bucket", "Collection", "Api", "Secret", "Topic"}
UnhandledTypes == {"Queue"}

ResourceNames(type) ==
    CASE type = "Bucket" -> {"b1"}
      [] type = "Collection" -> {"c1"}
      [] type = "Api" -> {"a1"}
      [] type = "Secret" -> {"k1"}
      [] type = "Topic" -> {"t1"}

\* ResourceDeclareRequest{Resource{Type, Name}, Config (oneof)}
SimpleDeclarations ==
    UNION { { [type |-> t, name |-> n, config |-> [kind |-> t, value |-> [spec |-> v]]]
              : n \in ResourceNames(t), v \in Payloads } : t \in SimpleTypes }

SecurityDeclarations ==
    { [type |-> "ApiSecurityDefinition", name |-> d[2],
       config |-> [kind |-> "ApiSecurityDefinition",
                   value |-> [apiName |-> d[1], definition |-> d[3]]]]
      : d \in { <<"a1", "d1", "p">>, <<"a1", "d1", "q">>, <<"a1", "d2", "p">>,
                <<"", "d1", "p">> } }

PrincipalLists ==
    { <<>>,
      << [name |-> "", type |-> Function] >>,
      << [name |-> "other", type |-> Function], [name |-> "", type |-> "Bucket"],
         [name |-> "", type |-> Function] >> }

PolicyDeclarations ==
    { [type |-> "Policy", name |-> d[1],
       config |-> [kind |-> "Policy",
                   value |-> [principals |-> d[2], actions |-> "BucketFileGet"]]]
      : d \in ({"p1"} \X PrincipalLists) \cup {<<"p2", <<>> >>} }

UnhandledDeclarations ==
    { [type |-> t, name |-> "q1", config |-> [kind |-> t, value |-> [spec |-> "p"]]]
      : t \in UnhandledTypes }

Declarations ==
    SimpleDeclarations \cup SecurityDeclarations \cup PolicyDeclarations
        \cup UnhandledDeclarations

\* req.GetBucket(), req.GetCollection(), ...: the config when the oneof
\* holds that kind, nil otherwise.
GetConfig(req, kind) ==
    IF req.config.kind = kind THEN req.config.value ELSE Nil

(***************************************************************************)
(* The errors the handlers record or return                                *)
(***************************************************************************)
ErrProxyRoutes ==
    [msg |-> "cannot register HTTP proxy, API routes have already been registered"]
ErrProxyProxy ==
    [msg |-> "cannot register HTTP proxy, another proxy has already been registered"]
ErrRoute(existingRoute) ==
    [msg |-> "route already registered", api |-> existingRoute.api,
     path |-> existingRoute.path]
ErrSchedule(name) == [msg |-> "schedule already registered", name |-> name]
ErrBucket(name) == [msg |-> "bucket already registered", name |-> name]
ErrWebsocket(existing) ==
    [msg |-> "websocket handler already registered",
     socketName |-> existing.socketName, eventType |-> existing.eventType]

ErrRecv == "recv failed"
ErrFirstMessage == "first message must be a registration request"
ErrFirst == "first "
ErrSend == "send failed"
NoError == "nil"

\* stream.Send(RegistrationResponse) as the last statement of a streaming
\* handler: the handler returns what Send returns.
RegistrationResponse == "RegistrationResponse"
SendResult(sendOk) ==
    IF sendOk THEN [err |-> NoError, sent |-> <<RegistrationResponse>>]
              ELSE [err |-> ErrSend, sent |-> <<>>]

\* What the latest handler call gave its caller: the error it returned and
\* the messages it sent.
Returned(handler, err, sent) ==
    [handler |-> handler, err |-> err, sent |-> sent]

(***************************************************************************)
(* The provider supervisor: files, ports, text                             *)
(***************************************************************************)
\* runtime.GOOS
Platforms == {"linux", "windows"}

\* os.FileMode: the type bits ("" for a regular file, "d" for a directory)
\* and the permission bits, here 0644, 0755, 0010 and 0001.
FileModes == [type : {"", "d"}, perm : {420, 493, 8, 1}]

\* What fs.Stat(executablePath) yields: an error, or the file's mode.
StatError == [err |-> "stat failed"]
StatResults == {StatError} \cup {[err |-> "nil", mode |-> m] : m \in FileModes}

\* mode.IsRegular(): no type bit is set.
IsRegular(mode) == mode.type = ""

\* a & b on non-negative integers.
RECURSIVE BitAnd(_, _)
BitAnd(a, b) ==
    IF a = 0 \/ b = 0 THEN 0
    ELSE (a % 2) * (b % 2) + 2 * BitAnd(a \div 2, b \div 2)

\* isExecAny(mode): a regular file on windows; elsewhere a regular file with
\* an execute bit (0111) set for some user.
IsExecAnyRegular(mode, os) == IsRegular(mode)

IsExecAny(mode, os) ==
    IF os = "windows"
    THEN IsRegular(mode)
    ELSE IsRegular(mode) /\ BitAnd(mode.perm, 73) # 0

\* The ports the probe listener may be given.
Ports == {8080, 40001}

\* fmt.Sprint(port): the decimal digits of the port.
Digit(d) ==
    CASE d = 0 -> "0" [] d = 1 -> "1" [] d = 2 -> "2" [] d = 3 -> "3" [] d = 4 -> "4"
      [] d = 5 -> "5" [] d = 6 -> "6" [] d = 7 -> "7" [] d = 8 -> "8" [] d = 9 -> "9"

RECURSIVE Sprint(_)
Sprint(n) == IF n < 10 THEN Digit(n) ELSE Sprint(n \div 10) \o Digit(n % 10)

\* lis.Addr().String() of a loopback listener.
AddrString(port) == "127.0.0.1:" \o Sprint(port)

\* os.Environ()
Environ == <<"PATH=/usr/bin">>

ExecutablePath == "/bin/provider"

ErrNotExecutable == "provider binary is not executable"
ErrListen == "listen failed"
ErrClose == "close failed"
ErrStart == "start failed"
ErrKill == "failed to stop provider"

\* No subprocess was launched.
NoSubprocess == [state |-> "none", env |-> <<>>, kills |-> 0, probe |-> "none"]

\* StartProviderExecutable has not returned.
NotStarted == [provProc |-> Nil, err |-> "none"]

(***************************************************************************)
(* Construction                                                            *)
(***************************************************************************)
\* NewServiceRequirements
DefaultType(type) == IF type = "" THEN "default" ELSE type

Callers == 1..NumCallers

\* The local variables of one running Schedule call.
NoLocals ==
    [registrationRequest |-> Nil, found |-> FALSE, errors |-> <<>>,
     schedules |-> EmptyMap, err |-> NoError, sent |-> <<>>]

Init ==
    /\ serviceName \in ServiceNames
    /\ \E type \in ServiceTypes : serviceType = DefaultType(type)
    /\ routes = EmptyMap
    /\ schedules = EmptyMap
    /\ subscriptions = EmptyMap
    /\ websockets = EmptyMap
    /\ buckets = EmptyMap
    /\ collections = EmptyMap
    /\ topics = EmptyMap
    /\ policies = EmptyMap
    /\ secrets = EmptyMap
    /\ listeners = EmptyMap
    /\ apis = EmptyMap
    /\ apiSecurityDefinition = EmptyMap
    /\ errors = <<>>
    /\ proxy = Nil
    /\ calls = 0
    /\ call = Returned("none", NoError, <<>>)
    /\ pc = [p \in Callers |-> "idle"]
    /\ local = [p \in Callers |-> NoLocals]
    /\ mapWriters = {}
    /\ crashed = FALSE
    /\ goos = ""
    /\ fileInfo = Nil
    /\ provProc = Nil
    /\ lis = Nil
    /\ cmd = Nil
    /\ subprocess = NoSubprocess
    /\ startPc = "idle"
    /\ started = NotStarted
    /\ stops = <<>>
    /\ serviceStatus = EmptyMap
    /\ localServicesModel = <<>>
    /\ updateChan = <<>>
    /\ stopChan = <<>>
    /\ cmds = <<>>
    /\ msgs = <<>>
    /\ program = "new"
    /\ sentUpdates = <<>>
    /\ handledUpdates = <<>>
    /\ inputs = 0

\* WorkerCount(): the number of keys of each trigger map, added up.
WorkerCountWithRejected ==
    Cardinality(DOMAIN routes) + Cardinality(DOMAIN listeners)
        + Cardinality(DOMAIN schedules) + Cardinality(DOMAIN subscriptions)
        + Cardinality(DOMAIN websockets) + Len(errors)

WorkerCount ==
    Cardinality(DOMAIN routes) + Cardinality(DOMAIN listeners)
        + Cardinality(DOMAIN schedules) + Cardinality(DOMAIN subscriptions)
        + Cardinality(DOMAIN websockets)

(***************************************************************************)
(* Handlers, one call at a time                                            *)
(***************************************************************************)
\* What a whole handler call leaves behind besides the aggregate: the call
\* is counted and its outcome recorded; no concurrent caller is running.
Return(handler, err, sent) ==
    /\ calls < MaxCalls
    /\ calls' = calls + 1
    /\ call' = Returned(handler, err, sent)
    /\ UNCHANGED <<conc, supervision, view>>

\* The policy as Declare stores it: a policy without principals (in a decoded
\* message, a nil list) gets the declaring service as its only principal; otherwise every principal with
\* an empty name and the service type is given the service's name.
WithPrincipalsAsGiven(policy) == policy

WithPrincipals(policy) ==
    IF policy.principals = <<>>
    THEN [policy EXCEPT !.principals = << [name |-> serviceName, type |-> Function] >>]
    ELSE [policy EXCEPT !.principals =
            [i \in DOMAIN policy.principals |->
                IF policy.principals[i].name = "" /\ policy.principals[i].type = Function
                THEN [policy.principals[i] EXCEPT !.name = serviceName]
                ELSE policy.principals[i]]]

\* s.apiSecurityDefinition[apiName][name] = definition, the inner map made on
\* first use.
SecurityDefinitionsAfter(req) ==
    LET def == GetConfig(req, "ApiSecurityDefinition")
        apiName == IF def = Nil THEN "" ELSE def.apiName
        inner == IF apiName \in DOMAIN apiSecurityDefinition
                 THEN apiSecurityDefinition[apiName] ELSE EmptyMap
    IN  MapPut(apiSecurityDefinition, apiName, MapPut(inner, req.name, def))

\* The switch of Declare has no default case: a request of a type without a
\* case falls through it.
UnrecognizedStoredAsBucket(req) ==
    /\ buckets' = MapPut(buckets, req.name, req.config.value)
    /\ UNCHANGED <<collections, apis, apiSecurityDefinition, secrets, policies, topics>>

Unrecognized(req) == UNCHANGED declared

Declare(req) ==
    /\ Return("Declare", NoError, <<"ResourceDeclareResponse">>)
    /\ CASE req.type = "Bucket" ->
              /\ buckets' = MapPut(buckets, req.name, GetConfig(req, "Bucket"))
              /\ UNCHANGED <<collections, apis, apiSecurityDefinition, secrets, policies, topics>>
         [] req.type = "Collection" ->
              /\ collections' = MapPut(collections, req.name, GetConfig(req, "Collection"))
              /\ UNCHANGED <<buckets, apis, apiSecurityDefinition, secrets, policies, topics>>
         [] req.type = "Api" ->
              /\ apis' = MapPut(apis, req.name, GetConfig(req, "Api"))
              /\ UNCHANGED <<buckets, collections, apiSecurityDefinition, secrets, policies, topics>>
         [] req.type = "ApiSecurityDefinition" ->
              /\ apiSecurityDefinition' = SecurityDefinitionsAfter(req)
              /\ UNCHANGED <<buckets, collections, apis, secrets, policies, topics>>
         [] req.type = "Secret" ->
              /\ secrets' = MapPut(secrets, req.name, GetConfig(req, "Secret"))
              /\ UNCHANGED <<buckets, collections, apis, apiSecurityDefinition, policies, topics>>
         [] req.type = "Policy" ->
              /\ policies' = MapPut(policies, req.name, WithPrincipals(GetConfig(req, "Policy")))
              /\ UNCHANGED <<buckets, collections, apis, apiSecurityDefinition, secrets, topics>>
         [] req.type = "Topic" ->
              /\ topics' = MapPut(topics, req.name, GetConfig(req, "Topic"))
              /\ UNCHANGED <<buckets, collections, apis, apiSecurityDefinition, secrets, policies>>
         [] OTHER -> Unrecognized(req)
    /\ UNCHANGED <<identity, triggers, proxy, errors>>

\* The errors Proxy appends: one when routes are registered, one when a
\* proxy is registered.
ProxyErrorsNone == <<>>

ProxyErrors ==
    (IF Cardinality(DOMAIN routes) > 0 THEN <<ErrProxyRoutes>> ELSE <<>>)
        \o (IF proxy # Nil THEN <<ErrProxyProxy>> ELSE <<>>)

\* The proxy field after Proxy(req).
ProxyAfter(req) == req

ProxyClearingRoutes(req) ==
    /\ Return("Proxy", NoError, <<"HttpProxyResponse">>)
    /\ errors' = errors \o ProxyErrors
    /\ proxy' = ProxyAfter(req)
    /\ routes' = EmptyMap
    /\ UNCHANGED <<identity, schedules, subscriptions, websockets, listeners, declared>>

ProxyReplacingErrors(req) ==
    /\ Return("Proxy", NoError, <<"HttpProxyResponse">>)
    /\ errors' = ProxyErrors
    /\ proxy' = ProxyAfter(req)
    /\ UNCHANGED <<identity, triggers, declared>>

Proxy(req) ==
    /\ Return("Proxy", NoError, <<"HttpProxyResponse">>)
    /\ errors' = errors \o ProxyErrors
    /\ proxy' = ProxyAfter(req)
    /\ UNCHANGED <<identity, triggers, declared>>

\* The start of every streaming handler: the first Recv fails, or its message
\* holds no registration request, and the handler returns the error.
Rejected(msg) ==
    \/ msg.recv = "error"
    \/ GetRegistrationRequest(msg) = Nil

\* The outcomes of the stream.Send a handler reaches after the first message
\* msg; a handler that rejects msg reaches none.
SendOutcomes(msg) == IF Rejected(msg) THEN {FALSE} ELSE BOOLEAN

RejectErrorNil(msg, noRegistration) ==
    IF msg.recv = "error" THEN ErrRecv ELSE NoError

RejectError(msg, noRegistration) ==
    IF msg.recv = "error" THEN ErrRecv ELSE noRegistration

\* The predicate of Serve's lo.Find: an existing route of the API with a
\* method in common and the same path.
RouteOverlapsPathOnly(item, registrationRequest) ==
    item.path = registrationRequest.path

RouteOverlaps(item, registrationRequest) ==
    /\ Len(Intersect(item.methods, registrationRequest.methods)) > 0
    /\ item.path = registrationRequest.path

ExistingRoute(registrationRequest) ==
    LET existing == MapGetSeq(routes, registrationRequest.api)
    IN  Find(existing, [i \in DOMAIN existing |->
                            RouteOverlaps(existing[i], registrationRequest)])

Serve(msg, sendOk) ==
    IF Rejected(msg)
    THEN /\ Return("Serve", RejectError(msg, ErrFirstMessage), <<>>)
         /\ UNCHANGED aggregate
    ELSE LET registrationRequest == GetRegistrationRequest(msg)
             existing == ExistingRoute(registrationRequest)
         IN  /\ Return("Serve", SendResult(sendOk).err, SendResult(sendOk).sent)
             /\ IF existing.found
                THEN /\ errors' = Append(errors, ErrRoute(existing.item))
                     /\ UNCHANGED routes
                ELSE /\ routes' = MapPut(routes, registrationRequest.api,
                            Append(MapGetSeq(routes, registrationRequest.api),
                                   registrationRequest))
                     /\ UNCHANGED errors
             /\ UNCHANGED <<identity, schedules, subscriptions, websockets, listeners,
                            proxy, declared>>

\* s.schedules[ScheduleName] = registrationRequest
SchedulesAfterKeepFirst(registrationRequest) ==
    MapPutKeepFirst(schedules, registrationRequest.scheduleName, registrationRequest)

SchedulesAfter(registrationRequest) ==
    MapPut(schedules, registrationRequest.scheduleName, registrationRequest)

Schedule(msg, sendOk) ==
    IF Rejected(msg)
    THEN /\ Return("Schedule", RejectError(msg, ErrFirstMessage), <<>>)
         /\ UNCHANGED aggregate
    ELSE LET registrationRequest == GetRegistrationRequest(msg)
             found == registrationRequest.scheduleName \in DOMAIN schedules
         IN  /\ Return("Schedule", SendResult(sendOk).err, SendResult(sendOk).sent)
             /\ errors' = IF found
                          THEN Append(errors, ErrSchedule(registrationRequest.scheduleName))
                          ELSE errors
             /\ schedules' = SchedulesAfter(registrationRequest)
             /\ UNCHANGED <<identity, routes, subscriptions, websockets, listeners,
                            proxy, declared>>

\* s.subscriptions[TopicName] = append(s.subscriptions[TopicName], request)
SubscriptionsAfterOnce(registrationRequest) ==
    MapPut(subscriptions, registrationRequest.topicName,
           IF registrationRequest.topicName \in DOMAIN subscriptions
           THEN subscriptions[registrationRequest.topicName]
           ELSE <<registrationRequest>>)

SubscriptionsAfter(registrationRequest) ==
    MapPut(subscriptions, registrationRequest.topicName,
           Append(MapGetSeq(subscriptions, registrationRequest.topicName),
                  registrationRequest))

SubscribeSendFirst(msg, sendOk) ==
    IF Rejected(msg)
    THEN /\ Return("Subscribe", RejectError(msg, ErrFirstMessage), <<>>)
         /\ UNCHANGED aggregate
    ELSE LET registrationRequest == GetRegistrationRequest(msg)
         IN  /\ Return("Subscribe", SendResult(sendOk).err, SendResult(sendOk).sent)
             /\ subscriptions' = IF sendOk THEN SubscriptionsAfter(registrationRequest)
                                           ELSE subscriptions
             /\ UNCHANGED <<identity, routes, schedules, websockets, listeners,
                            proxy, declared, errors>>

Subscribe(msg, sendOk) ==
    IF Rejected(msg)
    THEN /\ Return("Subscribe", RejectError(msg, ErrFirstMessage), <<>>)
         /\ UNCHANGED aggregate
    ELSE LET registrationRequest == GetRegistrationRequest(msg)
         IN  /\ Return("Subscribe", SendResult(sendOk).err, SendResult(sendOk).sent)
             /\ subscriptions' = SubscriptionsAfter(registrationRequest)
             /\ UNCHANGED <<identity, routes, schedules, websockets, listeners,
                            proxy, declared, errors>>

\* Listen's duplicate test: _, found := s.buckets[BucketName]
ListenFound(registrationRequest) ==
    registrationRequest.bucketName \in DOMAIN buckets

Listen(msg, sendOk) ==
    IF Rejected(msg)
    THEN /\ Return("Listen", RejectError(msg, ErrFirst), <<>>)
         /\ UNCHANGED aggregate
    ELSE LET registrationRequest == GetRegistrationRequest(msg)
         IN  /\ Return("Listen", SendResult(sendOk).err, SendResult(sendOk).sent)
             /\ IF ListenFound(registrationRequest)
                THEN /\ errors' = Append(errors, ErrBucket(registrationRequest.bucketName))
                     /\ UNCHANGED listeners
                ELSE /\ listeners' = MapPut(listeners, registrationRequest.bucketName,
                                            registrationRequest)
                     /\ UNCHANGED errors
             /\ UNCHANGED <<identity, routes, schedules, subscriptions, websockets,
                            proxy, declared>>

\* The predicate of HandleEvents' lo.Find: an existing handler of the socket
\* for the same event type.
SameSocket(item, registrationRequest) ==
    item.socketName = registrationRequest.socketName

SameEventType(item, registrationRequest) ==
    item.eventType = registrationRequest.eventType

ExistingSocketHandler(registrationRequest) ==
    LET existing == MapGetSeq(websockets, registrationRequest.socketName)
    IN  Find(existing, [i \in DOMAIN existing |->
                            SameEventType(existing[i], registrationRequest)])

HandleEvents(msg, sendOk) ==
    IF Rejected(msg)
    THEN /\ Return("HandleEvents", RejectError(msg, ErrFirstMessage), <<>>)
         /\ UNCHANGED aggregate
    ELSE LET registrationRequest == GetRegistrationRequest(msg)
             existing == ExistingSocketHandler(registrationRequest)
         IN  /\ Return("HandleEvents", SendResult(sendOk).err, SendResult(sendOk).sent)
             /\ IF existing.found
                THEN /\ errors' = Append(errors, ErrWebsocket(existing.item))
                     /\ UNCHANGED websockets
                ELSE /\ websockets' = MapPut(websockets, registrationRequest.socketName,
                            Append(MapGetSeq(websockets, registrationRequest.socketName),
                                   registrationRequest))
                     /\ UNCHANGED errors
             /\ UNCHANGED <<identity, routes, schedules, subscriptions, listeners,
                            proxy, declared>>

DeclareCall == \E req \in Declarations : Declare(req)
ProxyCall == \E req \in ProxyRequests : Proxy(req)
ServeCall ==
    \E msg \in FirstMessages(RouteRegistrations) : \E sendOk \in SendOutcomes(msg) : Serve(msg, sendOk)
ScheduleCall ==
    \E msg \in FirstMessages(ScheduleRegistrations) : \E sendOk \in SendOutcomes(msg) : Schedule(msg, sendOk)
SubscribeCall ==
    \E msg \in FirstMessages(TopicRegistrations) : \E sendOk \in SendOutcomes(msg) : Subscribe(msg, sendOk)
ListenCall ==
    \E msg \in FirstMessages(StorageRegistrations) : \E sendOk \in SendOutcomes(msg) : Listen(msg, sendOk)
HandleEventsCall ==
    \E msg \in FirstMessages(WebsocketRegistrations) : \E sendOk \in SendOutcomes(msg) : HandleEvents(msg, sendOk)

Next ==
    \/ DeclareCall
    \/ ProxyCall
    \/ ServeCall
    \/ ScheduleCall
    \/ SubscribeCall
    \/ ListenCall
    \/ HandleEventsCall

Spec == Init /\ [][Next]_vars

(***************************************************************************)
(* Schedule run by concurrent callers.  The handler takes no lock          *)
(* (resourceLock is never locked), so its accesses to s.schedules and      *)
(* s.errors interleave with those of the other callers.  A Go map          *)
(* assignment that overlaps another access of the map is a data race: the  *)
(* runtime may detect it and end the process ("concurrent map writes",     *)
(* "concurrent map read and map write"), or both accesses go through, or   *)
(* the assignment that finishes last writes back the map it started from   *)
(* and the other assignment is lost.                                       *)
(***************************************************************************)
ConcurrentRegistrations ==
    ScheduleRegistrations \cup {[scheduleName |-> "s3", cadence |-> "p"]}

Running(p, at) == ~crashed /\ pc[p] = at

Goto(p, at, locals) ==
    /\ pc' = [pc EXCEPT ![p] = at]
    /\ local' = [local EXCEPT ![p] = locals]
    /\ UNCHANGED <<calls, call, supervision, view>>

\* msg, err := stream.Recv(); registrationRequest := msg.GetRegistrationRequest()
ScheduleRecv(p, msg) ==
    /\ Running(p, "idle")
    /\ IF Rejected(msg)
       THEN Goto(p, "done", [local[p] EXCEPT !.err = RejectError(msg, ErrFirstMessage)])
       ELSE Goto(p, "lookup",
                 [local[p] EXCEPT !.registrationRequest = GetRegistrationRequest(msg)])
    /\ UNCHANGED <<aggregate, mapWriters, crashed>>

\* _, found := s.schedules[registrationRequest.ScheduleName]
ScheduleLookup(p) ==
    /\ Running(p, "lookup")
    /\ LET name == local[p].registrationRequest.scheduleName
           racing == \E q \in mapWriters :
                        local[q].registrationRequest.scheduleName = name
       IN  \E found \in (IF racing THEN BOOLEAN ELSE {name \in DOMAIN schedules}) :
             Goto(p, IF found THEN "readErrors" ELSE "assign",
                  [local[p] EXCEPT !.found = found])
    /\ crashed' \in (IF mapWriters # {} THEN BOOLEAN ELSE {FALSE})
    /\ UNCHANGED <<aggregate, mapWriters>>

\* s.errors = append(s.errors, ...): the slice is read ...
ScheduleReadErrors(p) ==
    /\ Running(p, "readErrors")
    /\ Goto(p, "appendError", [local[p] EXCEPT !.errors = errors])
    /\ UNCHANGED <<aggregate, mapWriters, crashed>>

\* ... and the extended slice is stored.
ScheduleAppendError(p) ==
    /\ Running(p, "appendError")
    /\ errors' = Append(local[p].errors,
                        ErrSchedule(local[p].registrationRequest.scheduleName))
    /\ Goto(p, "assign", local[p])
    /\ UNCHANGED <<identity, triggers, proxy, declared, mapWriters, crashed>>

\* s.schedules[ScheduleName] = registrationRequest: the assignment starts ...
ScheduleAssignBegin(p) ==
    /\ Running(p, "assign")
    /\ crashed' \in (IF mapWriters # {} THEN BOOLEAN ELSE {FALSE})
    /\ mapWriters' = mapWriters \cup {p}
    /\ Goto(p, "store", [local[p] EXCEPT !.schedules = schedules])
    /\ UNCHANGED aggregate

\* ... and ends.
AssignOutcomes(p) ==
    LET registrationRequest == local[p].registrationRequest
    IN  { MapPut(schedules, registrationRequest.scheduleName, registrationRequest),
          MapPut(local[p].schedules, registrationRequest.scheduleName,
                 registrationRequest) }

ScheduleAssignEnd(p) ==
    /\ Running(p, "store")
    /\ schedules' \in AssignOutcomes(p)
    /\ crashed' \in (IF mapWriters # {p} \/ local[p].schedules # schedules
                      THEN BOOLEAN ELSE {FALSE})
    /\ mapWriters' = mapWriters \ {p}
    /\ Goto(p, "send", local[p])
    /\ UNCHANGED <<identity, routes, subscriptions, websockets, listeners,
                   proxy, declared, errors>>

\* return stream.Send(RegistrationResponse)
ScheduleSend(p, sendOk) ==
    /\ Running(p, "send")
    /\ Goto(p, "done", [local[p] EXCEPT !.err = SendResult(sendOk).err,
                                        !.sent = SendResult(sendOk).sent])
    /\ UNCHANGED <<aggregate, mapWriters, crashed>>

ConcNext ==
    \E p \in Callers :
        \/ \E msg \in FirstMessages(ConcurrentRegistrations) : ScheduleRecv(p, msg)
        \/ ScheduleLookup(p)
        \/ ScheduleReadErrors(p)
        \/ ScheduleAppendError(p)
        \/ ScheduleAssignBegin(p)
        \/ ScheduleAssignEnd(p)
        \/ \E sendOk \in BOOLEAN : ScheduleSend(p, sendOk)

ConcSpec == Init /\ [][ConcNext]_vars

(***************************************************************************)
(* Serve run by concurrent callers, again without a lock.  Its lo.Find     *)
(* and the s.routes[api] on the right of the append read the map; the      *)
(* assignment to s.routes[api] writes it.                                  *)
(***************************************************************************)
ConcurrentRoutes ==
    { [api |-> "a1", methods |-> <<"GET">>, path |-> "/x"],
      [api |-> "a1", methods |-> <<"POST", "GET">>, path |-> "/x"],
      [api |-> "a1", methods |-> <<"GET">>, path |-> "/y"] }

\* The local variables of one running Serve call.
NoServeLocals ==
    [registrationRequest |-> Nil, found |-> FALSE, item |-> Nil, errors |-> <<>>,
     existing |-> <<>>, routes |-> EmptyMap, err |-> NoError, sent |-> <<>>]

\* A map access that overlaps an assignment to the map by another caller may
\* end the process.
MapAccess(p) ==
    crashed' \in (IF mapWriters \ {p} # {} THEN BOOLEAN ELSE {FALSE})

\* msg, err := stream.Recv(); registrationRequest := msg.GetRegistrationRequest()
ServeRecv(p, msg) ==
    /\ Running(p, "idle")
    /\ IF Rejected(msg)
       THEN Goto(p, "done", [NoServeLocals EXCEPT !.err = RejectError(msg, ErrFirstMessage)])
       ELSE Goto(p, "find",
                 [NoServeLocals EXCEPT !.registrationRequest = GetRegistrationRequest(msg)])
    /\ UNCHANGED <<aggregate, mapWriters, crashed>>

\* existingRoute, found := lo.Find(s.routes[registrationRequest.Api], ...)
ServeFind(p) ==
    /\ Running(p, "find")
    /\ LET existing == ExistingRoute(local[p].registrationRequest)
       IN  Goto(p, IF existing.found THEN "readErrs" ELSE "readRoutes",
                [local[p] EXCEPT !.found = existing.found, !.item = existing.item])
    /\ MapAccess(p)
    /\ UNCHANGED <<aggregate, mapWriters>>

\* s.errors = append(s.errors, ...): the slice is read ...
ServeReadErrors(p) ==
    /\ Running(p, "readErrs")
    /\ Goto(p, "appendErr", [local[p] EXCEPT !.errors = errors])
    /\ UNCHANGED <<aggregate, mapWriters, crashed>>

\* ... and the extended slice is stored.
ServeAppendError(p) ==
    /\ Running(p, "appendErr")
    /\ errors' = Append(local[p].errors, ErrRoute(local[p].item))
    /\ Goto(p, "sendServe", local[p])
    /\ UNCHANGED <<identity, triggers, proxy, declared, mapWriters, crashed>>

\* s.routes[api] = append(s.routes[api], registrationRequest): the routes of
\* the API are read ...
ServeReadRoutes(p) ==
    /\ Running(p, "readRoutes")
    /\ Goto(p, "assignRoutes",
            [local[p] EXCEPT !.existing = MapGetSeq(routes, local[p].registrationRequest.api)])
    /\ MapAccess(p)
    /\ UNCHANGED <<aggregate, mapWriters>>

\* ... the assignment of the extended slice starts ...
ServeAssignBegin(p) ==
    /\ Running(p, "assignRoutes")
    /\ MapAccess(p)
    /\ mapWriters' = mapWriters \cup {p}
    /\ Goto(p, "storeRoutes", [local[p] EXCEPT !.routes = routes])
    /\ UNCHANGED aggregate

\* ... and ends.
ServeAssignOutcomes(p) ==
    LET registrationRequest == local[p].registrationRequest
        extended == Append(local[p].existing, registrationRequest)
    IN  { MapPut(routes, registrationRequest.api, extended),
          MapPut(local[p].routes, registrationRequest.api, extended) }

ServeAssignEnd(p) ==
    /\ Running(p, "storeRoutes")
    /\ routes' \in ServeAssignOutcomes(p)
    /\ crashed' \in (IF mapWriters # {p} \/ local[p].routes # routes
                      THEN BOOLEAN ELSE {FALSE})
    /\ mapWriters' = mapWriters \ {p}
    /\ Goto(p, "sendServe", local[p])
    /\ UNCHANGED <<identity, schedules, subscriptions, websockets, listeners,
                   proxy, declared, errors>>

\* return stream.Send(RegistrationResponse)
ServeSend(p, sendOk) ==
    /\ Running(p, "sendServe")
    /\ Goto(p, "done", [local[p] EXCEPT !.err = SendResult(sendOk).err,
                                        !.sent = SendResult(sendOk).sent])
    /\ UNCHANGED <<aggregate, mapWriters, crashed>>

ConcServeNext ==
    \E p \in Callers :
        \/ \E msg \in FirstMessages(ConcurrentRoutes) : ServeRecv(p, msg)
        \/ ServeFind(p)
        \/ ServeReadErrors(p)
        \/ ServeAppendError(p)
        \/ ServeReadRoutes(p)
        \/ ServeAssignBegin(p)
        \/ ServeAssignEnd(p)
        \/ \E sendOk \in BOOLEAN : ServeSend(p, sendOk)

ConcServeSpec == Init /\ [][ConcServeNext]_vars

(***************************************************************************)
(* The provider supervisor.  StartProviderExecutable and the startProcess  *)
(* it calls run step by step; Stop is called on the supervisor that        *)
(* StartProviderExecutable returned.                                       *)
(***************************************************************************)
collector == <<aggregate, calls, call, conc>>

\* What StartProviderExecutable returns: (nil, err) on an error, and the
\* supervisor it built with a nil error otherwise.
StartResultAlways(err) == [provProc |-> [ref |-> "provProc"], err |-> err]

StartResult(err) ==
    IF err # NoError THEN [provProc |-> Nil, err |-> err]
                     ELSE [provProc |-> [ref |-> "provProc"], err |-> NoError]

\* startProcess returns err, and StartProviderExecutable returns (nil, err).
StartFailed(err) ==
    /\ started' = StartResult(err)
    /\ startPc' = "returned"

\* fileInfo, err := fs.Stat(executablePath); the isExecAny test; and the
\* construction of the ProviderProcess.
StatAndCheck(info, os) ==
    /\ startPc = "idle"
    /\ goos' = os
    /\ fileInfo' = info
    /\ IF info.err # NoError
       THEN /\ StartFailed(info.err)
            /\ UNCHANGED provProc
       ELSE IF ~IsExecAny(info.mode, os)
       THEN /\ StartFailed(ErrNotExecutable)
            /\ UNCHANGED provProc
       ELSE /\ provProc' = [providerPath |-> ExecutablePath, process |-> Nil,
                            envMap |-> EmptyMap, Address |-> ""]
            /\ startPc' = "GetNextListener"
            /\ UNCHANGED started
    /\ UNCHANGED <<lis, cmd, subprocess, stops, collector, view>>

\* cmd := exec.Command(p.providerPath); lis, err := utils.GetNextListener()
GetNextListener(port, ok) ==
    /\ startPc = "GetNextListener"
    /\ cmd' = [path |-> provProc.providerPath, env |-> <<>>, process |-> Nil]
    /\ IF ok
       THEN /\ lis' = [state |-> "open", port |-> port]
            /\ startPc' = "setPort"
            /\ UNCHANGED started
       ELSE /\ StartFailed(ErrListen)
            /\ UNCHANGED lis
    /\ UNCHANGED <<goos, fileInfo, provProc, subprocess, stops, collector, view>>

\* cmd.Env: os.Environ() followed by one "k=v" entry per key of envMap.
CmdEnv(envMap) ==
    Environ \o (IF "PORT" \in DOMAIN envMap
                THEN <<"PORT" \o "=" \o envMap["PORT"]>> ELSE <<>>)

\* p.Address = lis.Addr().String(); p.envMap["PORT"] = fmt.Sprint(tcpAddr.Port);
\* cmd.Env = env
SetPort ==
    /\ startPc = "setPort"
    /\ LET envMap == MapPut(provProc.envMap, "PORT", Sprint(lis.port))
       IN  /\ provProc' = [provProc EXCEPT !.Address = AddrString(lis.port),
                                           !.envMap = envMap]
           /\ cmd' = [cmd EXCEPT !.env = CmdEnv(envMap)]
    /\ startPc' = "lisClose"
    /\ UNCHANGED <<goos, fileInfo, lis, subprocess, started, stops, collector, view>>

\* err = lis.Close()
LisCloseSkipped(ok) ==
    /\ startPc = "lisClose"
    /\ startPc' = "cmdStart"
    /\ UNCHANGED <<goos, fileInfo, provProc, lis, cmd, subprocess, started, stops, collector, view>>

LisClose(ok) ==
    /\ startPc = "lisClose"
    /\ IF ok
       THEN /\ lis' = [lis EXCEPT !.state = "closed"]
            /\ startPc' = "cmdStart"
            /\ UNCHANGED started
       ELSE /\ StartFailed(ErrClose)
            /\ UNCHANGED lis
    /\ UNCHANGED <<goos, fileInfo, provProc, cmd, subprocess, stops, collector, view>>

\* err = cmd.Start()
CmdStart(ok) ==
    /\ startPc = "cmdStart"
    /\ IF ok
       THEN /\ subprocess' = [state |-> "running", env |-> cmd.env, kills |-> 0,
                              probe |-> lis.state]
            /\ cmd' = [cmd EXCEPT !.process = [ref |-> "cmd.Process"]]
            /\ startPc' = "setProcess"
            /\ UNCHANGED started
       ELSE /\ StartFailed(ErrStart)
            /\ UNCHANGED <<subprocess, cmd>>
    /\ UNCHANGED <<goos, fileInfo, provProc, lis, stops, collector, view>>

\* p.process = cmd.Process; return nil; return provProc, nil
SetProcess ==
    /\ startPc = "setProcess"
    /\ provProc' = [provProc EXCEPT !.process = cmd.process]
    /\ started' = StartResult(NoError)
    /\ startPc' = "returned"
    /\ UNCHANGED <<goos, fileInfo, lis, cmd, subprocess, stops, collector, view>>

\* What b.process.Kill() may return.  The supervisor never waits for the
\* subprocess: a killed subprocess stays a process the handle refers to, and
\* a further kill is delivered to it; on windows terminating a process that
\* has terminated can fail.
KillOutcomes ==
    IF subprocess.state = "killed" /\ goos = "windows" THEN BOOLEAN ELSE {TRUE}

\* The process field after Stop.
ProcessAfterStop == provProc.process

\* Stop, called by the holder of the supervisor.
Stop(killOk) ==
    /\ startPc = "returned"
    /\ started.provProc # Nil
    /\ Len(stops) < MaxStops
    /\ IF provProc.process # Nil
       THEN /\ killOk \in KillOutcomes
            /\ subprocess' = [subprocess EXCEPT !.state = "killed", !.kills = @ + 1]
            /\ stops' = Append(stops, IF killOk THEN NoError ELSE ErrKill)
       ELSE /\ killOk
            /\ stops' = Append(stops, NoError)
            /\ UNCHANGED subprocess
    /\ provProc' = [provProc EXCEPT !.process = ProcessAfterStop]
    /\ UNCHANGED <<goos, fileInfo, lis, cmd, startPc, started, collector, view>>

ProviderNext ==
    \/ \E info \in StatResults, os \in Platforms : StatAndCheck(info, os)
    \/ \E port \in Ports, ok \in BOOLEAN : GetNextListener(port, ok)
    \/ SetPort
    \/ \E ok \in BOOLEAN : LisClose(ok)
    \/ \E ok \in BOOLEAN : CmdStart(ok)
    \/ SetProcess
    \/ \E killOk \in BOOLEAN : Stop(killOk)

ProviderSpec == Init /\ [][ProviderNext]_vars

(***************************************************************************)
(* The run-status view model.  The event loop calls Init once, runs every  *)
(* command it is returned, and calls Update with each message in turn      *)
(* until Update returns the quit command.                                  *)
(***************************************************************************)
\* project.ServiceRunUpdate
ServiceRunUpdates ==
    { [ServiceName |-> "api", Status |-> "starting"],
      [ServiceName |-> "api", Status |-> "running"],
      [ServiceName |-> "worker", Status |-> "starting"] }

\* tea.KeyMsg, by its String(), and a message of another type.
Keys == {"q", "esc", "ctrl+c", "a"}
KeyMsg(key) == [type |-> "KeyMsg", key |-> key]
OtherMsgs == {[type |-> "WindowSizeMsg"]}

\* reactive.ChanMsg[T]{Source, Value}
ChanMsg(source, value) == [type |-> "ChanMsg", Source |-> source, Value |-> value]

\* The commands Update and Init return.
NoCmd == [cmd |-> "nil"]
Quit == [cmd |-> "tea.Quit"]
AwaitChannel(source) == [cmd |-> "AwaitChannel", source |-> source]

\* case "q", "esc", "ctrl+c"
IsQuitKey(msg) == msg.type = "KeyMsg" /\ msg.key \in {"q", "esc", "ctrl+c"}

\* The command Update returns for msg; the command the sub model returns
\* for a message passed on to it is not followed.
UpdateCmdNoRearm(msg) ==
    IF IsQuitKey(msg) THEN Quit ELSE NoCmd

UpdateCmd(msg) ==
    IF IsQuitKey(msg) THEN Quit
    ELSE IF msg.type = "ChanMsg" THEN AwaitChannel(msg.Source)
    ELSE NoCmd

\* The event loop takes up the command Update returned.
Run(teaCmd) ==
    /\ cmds' = IF teaCmd.cmd = "AwaitChannel" THEN Append(cmds, teaCmd) ELSE cmds
    /\ program' = IF teaCmd = Quit THEN "quit" ELSE program

\* Model.Init(): tea.Batch(reactive.AwaitChannel(m.updateChan), ...)
ModelInit ==
    /\ program = "new"
    /\ program' = "running"
    /\ cmds' = Append(cmds, AwaitChannel("updateChan"))
    /\ UNCHANGED <<serviceStatus, localServicesModel, updateChan, stopChan, msgs,
                   sentUpdates, handledUpdates, inputs, collector, supervision>>

\* The service runner sends an update on the update channel while the view
\* has not quit.
SendUpdate(update) ==
    /\ program # "quit"
    /\ Len(sentUpdates) < MaxUpdates
    /\ updateChan' = Append(updateChan, update)
    /\ sentUpdates' = Append(sentUpdates, update)
    /\ UNCHANGED <<serviceStatus, localServicesModel, stopChan, cmds, msgs, program,
                   handledUpdates, inputs, collector, supervision>>

\* The terminal delivers a key or another message.
Input(msg) ==
    /\ program # "quit"
    /\ inputs < MaxInputs
    /\ inputs' = inputs + 1
    /\ msgs' = Append(msgs, msg)
    /\ UNCHANGED <<serviceStatus, localServicesModel, updateChan, stopChan, cmds,
                   program, sentUpdates, handledUpdates, collector, supervision>>

\* A running AwaitChannel command receives the next value of its channel
\* and hands it to the event loop as a ChanMsg.
AwaitReceive ==
    /\ program = "running"
    /\ cmds # <<>>
    /\ Head(cmds).source = "updateChan"
    /\ updateChan # <<>>
    /\ msgs' = Append(msgs, ChanMsg(Head(cmds).source, Head(updateChan)))
    /\ updateChan' = Tail(updateChan)
    /\ cmds' = Tail(cmds)
    /\ UNCHANGED <<serviceStatus, localServicesModel, stopChan, program,
                   sentUpdates, handledUpdates, inputs, collector, supervision>>

\* Model.Update(msg), called with the next message.
Update ==
    /\ program = "running"
    /\ msgs # <<>>
    /\ LET msg == Head(msgs)
       IN  /\ msgs' = Tail(msgs)
           /\ Run(UpdateCmd(msg))
           /\ IF IsQuitKey(msg)
              THEN /\ stopChan' = Append(stopChan, TRUE)
                   /\ UNCHANGED <<serviceStatus, localServicesModel, handledUpdates>>
              ELSE IF msg.type = "ChanMsg"
              THEN /\ serviceStatus' = MapPut(serviceStatus, msg.Value.ServiceName, msg.Value)
                   /\ handledUpdates' = Append(handledUpdates, msg.Value)
                   /\ UNCHANGED <<stopChan, localServicesModel>>
              ELSE /\ localServicesModel' = Append(localServicesModel, msg)
                   /\ UNCHANGED <<stopChan, serviceStatus, handledUpdates>>
    /\ UNCHANGED <<updateChan, sentUpdates, inputs, collector, supervision>>

ViewNext ==
    \/ ModelInit
    \/ \E update \in ServiceRunUpdates : SendUpdate(update)
    \/ \E key \in Keys : Input(KeyMsg(key))
    \/ \E msg \in OtherMsgs : Input(msg)
    \/ AwaitReceive
    \/ Update

ViewSpec == Init /\ [][ViewNext]_vars

\* The event loop calls Init, runs every command and handles every message.
ViewLiveSpec ==
    ViewSpec /\ WF_vars(ModelInit) /\ WF_vars(AwaitReceive) /\ WF_vars(Update)

(***************************************************************************)
(* Properties                                                              *)
(***************************************************************************)

\* C1: a Serve call whose registration shares a method and the path with a
\* route already registered on the same API appends exactly one conflict
\* error and leaves routes as it is; any other registration is appended to
\* the routes of its API and adds no error.
C1_ServeRejectsOverlappingRoute ==
    [][\A r \in RouteRegistrations, sendOk \in BOOLEAN :
        Serve(Registration(r), sendOk) =>
            LET existing == IF r.api \in DOMAIN routes THEN routes[r.api] ELSE <<>>
                overlapping ==
                    \E i \in DOMAIN existing :
                        /\ existing[i].path = r.path
                        /\ \E a \in DOMAIN existing[i].methods, b \in DOMAIN r.methods :
                              existing[i].methods[a] = r.methods[b]
            IN  IF overlapping
                THEN /\ routes' = routes
                     /\ Len(errors') = Len(errors) + 1
                     /\ SubSeq(errors', 1, Len(errors)) = errors
                     /\ errors'[Len(errors')].msg = "route already registered"
                ELSE /\ errors' = errors
                     /\ DOMAIN routes' = DOMAIN routes \cup {r.api}
                     /\ routes'[r.api] = Append(existing, r)
                     /\ \A api \in DOMAIN routes \ {r.api} : routes'[api] = routes[api]
      ]_vars

\* C1 witness: the second call was a Serve that was rejected as a duplicate.
C1_Witness ==
    /\ calls = 2
    /\ call.handler = "Serve"
    /\ Len(errors) = 1
    /\ errors[1] = [msg |-> "route already registered", api |-> "a1", path |-> "/x"]
    /\ Len(routes["a1"]) = 1

\* C2: a Schedule call stores its registration under the schedule name,
\* replacing what was there; it appends exactly one conflict error when the
\* name was already registered and no error otherwise.
C2_ScheduleOverwritesAndReports ==
    [][\A r \in ScheduleRegistrations, sendOk \in BOOLEAN :
        Schedule(Registration(r), sendOk) =>
            /\ DOMAIN schedules' = DOMAIN schedules \cup {r.scheduleName}
            /\ schedules'[r.scheduleName] = r
            /\ \A n \in DOMAIN schedules \ {r.scheduleName} : schedules'[n] = schedules[n]
            /\ IF r.scheduleName \in DOMAIN schedules
               THEN /\ Len(errors') = Len(errors) + 1
                    /\ SubSeq(errors', 1, Len(errors)) = errors
                    /\ errors'[Len(errors')] =
                          [msg |-> "schedule already registered", name |-> r.scheduleName]
               ELSE errors' = errors
      ]_vars

\* C2 witness: two Schedule calls under one name, the stored registration
\* being the one with cadence "q", and one conflict error.
C2_Witness ==
    /\ calls = 2
    /\ call.handler = "Schedule"
    /\ DOMAIN schedules = {"s1"}
    /\ schedules["s1"].cadence = "q"
    /\ errors = << [msg |-> "schedule already registered", name |-> "s1"] >>

\* C3: a Listen call for a bucket name that already has a listener appends
\* exactly one conflict error and keeps the existing listener; a call for a
\* bucket name without a listener stores the registration and adds no error.
C3_ListenRejectsSecondListener ==
    [][\A r \in StorageRegistrations, sendOk \in BOOLEAN :
        Listen(Registration(r), sendOk) =>
            IF r.bucketName \in DOMAIN listeners
            THEN /\ listeners' = listeners
                 /\ Len(errors') = Len(errors) + 1
                 /\ SubSeq(errors', 1, Len(errors)) = errors
            ELSE /\ errors' = errors
                 /\ DOMAIN listeners' = DOMAIN listeners \cup {r.bucketName}
                 /\ listeners'[r.bucketName] = r
      ]_vars

\* C4: a Proxy call made when routes are registered or a proxy is already
\* registered records a conflict error and leaves the proxy field as it was.
C4_RejectedProxyKeepsProxy ==
    [][\A req \in ProxyRequests :
        (Proxy(req) /\ (DOMAIN routes # {} \/ proxy # Nil)) =>
            /\ Len(errors') > Len(errors)
            /\ proxy' = proxy
      ]_vars

\* C5: a proxy is never set while routes are registered.
C5_ProxyExcludesRoutes == ~(proxy # Nil /\ DOMAIN routes # {})

\* C6: when every concurrent caller has completed a Schedule registration
\* and their schedule names are pairwise distinct, schedules holds exactly
\* one entry per caller and errors is empty.
C6_ConcurrentSchedulesAllStored ==
    ( /\ \A p \in Callers : pc[p] = "done" /\ local[p].registrationRequest # Nil
      /\ \A p, q \in Callers :
            p # q => local[p].registrationRequest.scheduleName
                        # local[q].registrationRequest.scheduleName )
    => /\ DOMAIN schedules =
            {local[p].registrationRequest.scheduleName : p \in Callers}
       /\ \A p \in Callers :
            schedules[local[p].registrationRequest.scheduleName]
                = local[p].registrationRequest
       /\ errors = <<>>

\* C7: a Declare of a recognized kind stores the new definition under its
\* name whether or not the name was declared before, keeps every other
\* entry, and appends no error; declaring a definition that is already the
\* stored one leaves the aggregate as it is.
C7_DeclareLastWriteWins ==
    [][\A req \in Declarations :
        (Declare(req) /\ req.type \notin UnhandledTypes) =>
            LET Stored(m, new) ==
                    /\ DOMAIN m' = DOMAIN m \cup {req.name}
                    /\ m'[req.name] = new
                    /\ \A n \in DOMAIN m \ {req.name} : m'[n] = m[n]
                    /\ (req.name \in DOMAIN m /\ m[req.name] = new)
                          => UNCHANGED aggregate
                value == req.config.value
                principals ==
                    IF value.principals = <<>>
                    THEN << [name |-> serviceName, type |-> "Function"] >>
                    ELSE [i \in DOMAIN value.principals |->
                            IF value.principals[i] = [name |-> "", type |-> "Function"]
                            THEN [name |-> serviceName, type |-> "Function"]
                            ELSE value.principals[i]]
            IN  /\ errors' = errors
                /\ CASE req.type = "Bucket" -> Stored(buckets, value)
                     [] req.type = "Collection" -> Stored(collections, value)
                     [] req.type = "Api" -> Stored(apis, value)
                     [] req.type = "Secret" -> Stored(secrets, value)
                     [] req.type = "Topic" -> Stored(topics, value)
                     [] req.type = "Policy" ->
                            Stored(policies, [principals |-> principals,
                                              actions |-> value.actions])
                     [] req.type = "ApiSecurityDefinition" ->
                            LET api == value.apiName
                                inner == IF api \in DOMAIN apiSecurityDefinition
                                         THEN apiSecurityDefinition[api] ELSE EmptyMap
                            IN  /\ DOMAIN apiSecurityDefinition'
                                      = DOMAIN apiSecurityDefinition \cup {api}
                                /\ DOMAIN apiSecurityDefinition'[api]
                                      = DOMAIN inner \cup {req.name}
                                /\ apiSecurityDefinition'[api][req.name] = value
                                /\ \A n \in DOMAIN inner \ {req.name} :
                                      apiSecurityDefinition'[api][n] = inner[n]
                                /\ \A a \in DOMAIN apiSecurityDefinition \ {api} :
                                      apiSecurityDefinition'[a] = apiSecurityDefinition[a]
                                /\ (req.name \in DOMAIN inner /\ inner[req.name] = value)
                                      => UNCHANGED aggregate
      ]_vars

\* C7 witness: after three calls, the last a Declare, bucket b1 holds the
\* definition "q", security definition d1 of API a1 holds "q", and no error
\* was recorded.
C7_Witness ==
    /\ calls = 3
    /\ call.handler = "Declare"
    /\ DOMAIN buckets = {"b1"}
    /\ buckets["b1"].spec = "q"
    /\ "a1" \in DOMAIN apiSecurityDefinition
    /\ DOMAIN apiSecurityDefinition["a1"] = {"d1"}
    /\ apiSecurityDefinition["a1"]["d1"].definition = "q"
    /\ errors = <<>>

\* C8: every Subscribe registration is appended to the subscriptions of its
\* topic, after those already there, and no error is appended.
C8_SubscribeAlwaysAppends ==
    [][\A r \in TopicRegistrations, sendOk \in BOOLEAN :
        Subscribe(Registration(r), sendOk) =>
            LET existing == IF r.topicName \in DOMAIN subscriptions
                            THEN subscriptions[r.topicName] ELSE <<>>
            IN  /\ errors' = errors
                /\ DOMAIN subscriptions' = DOMAIN subscriptions \cup {r.topicName}
                /\ subscriptions'[r.topicName] = Append(existing, r)
                /\ \A t \in DOMAIN subscriptions \ {r.topicName} :
                      subscriptions'[t] = subscriptions[t]
      ]_vars

\* C8 witness: three subscriptions on one topic, kept in registration order.
C8_Witness ==
    /\ "t1" \in DOMAIN subscriptions
    /\ Len(subscriptions["t1"]) = 3
    /\ subscriptions["t1"][1].id = "p"
    /\ subscriptions["t1"][2].id = "q"
    /\ subscriptions["t1"][3].id = "p"
    /\ errors = <<>>

\* C9: a HandleEvents call for an event type that already has a handler on
\* the socket appends exactly one conflict error and adds nothing; for an
\* event type not yet present it appends the registration to the socket's
\* handlers and adds no error; no socket ever holds two handlers for one
\* event type.
C9_OneHandlerPerEventType ==
    [][ /\ \A r \in WebsocketRegistrations, sendOk \in BOOLEAN :
            HandleEvents(Registration(r), sendOk) =>
                LET existing == IF r.socketName \in DOMAIN websockets
                                THEN websockets[r.socketName] ELSE <<>>
                IN  IF \E i \in DOMAIN existing : existing[i].eventType = r.eventType
                    THEN /\ websockets' = websockets
                         /\ Len(errors') = Len(errors) + 1
                         /\ SubSeq(errors', 1, Len(errors)) = errors
                         /\ errors'[Len(errors')].msg = "websocket handler already registered"
                    ELSE /\ errors' = errors
                         /\ DOMAIN websockets' = DOMAIN websockets \cup {r.socketName}
                         /\ websockets'[r.socketName] = Append(existing, r)
                         /\ \A w \in DOMAIN websockets \ {r.socketName} :
                               websockets'[w] = websockets[w]
        /\ \A w \in DOMAIN websockets' :
              \A i, j \in DOMAIN websockets'[w] :
                  websockets'[w][i].eventType = websockets'[w][j].eventType => i = j
      ]_vars

\* C9 witness: a socket with handlers for two event types, and a third
\* registration rejected.
C9_Witness ==
    /\ calls = 3
    /\ call.handler = "HandleEvents"
    /\ "w1" \in DOMAIN websockets
    /\ Len(websockets["w1"]) = 2
    /\ Len(errors) = 1
    /\ errors[1].msg = "websocket handler already registered"

\* C10: in each streaming handler, a failed first receive or a first message
\* that is no registration request makes the handler return an error, send
\* nothing, and leave the aggregate as it is.
C10_BadFirstMessageChangesNothing ==
    [][\A msg \in {RecvError, OtherMessage}, sendOk \in BOOLEAN :
        ( \/ Serve(msg, sendOk)
          \/ Schedule(msg, sendOk)
          \/ Subscribe(msg, sendOk)
          \/ Listen(msg, sendOk)
          \/ HandleEvents(msg, sendOk) ) =>
            /\ call'.err # "nil"
            /\ call'.sent = <<>>
            /\ UNCHANGED aggregate
      ]_vars

\* C10 witness: after two registrations, a stream whose first message is no
\* registration request was ended with an error and nothing sent.
C10_Witness ==
    /\ calls = 3
    /\ call.handler = "Listen"
    /\ call.err = "first "
    /\ call.sent = <<>>
    /\ DOMAIN listeners # {}
    /\ DOMAIN routes # {}

\* C11: a conflict never fails the call.  When Serve, Schedule, Listen or
\* HandleEvents finds its registration in conflict, the call ends as the
\* sending of the acknowledgment ends (no error and the registration
\* response when the send succeeds) and errors has gained the conflict as
\* its last entry; when Proxy finds routes or a proxy registered, it returns
\* the empty proxy response without error and errors has gained the
\* conflicts.
C11_ConflictNeverFailsCall ==
    [][LET Acknowledged(sendOk) ==
               /\ call'.err = (IF sendOk THEN "nil" ELSE "send failed")
               /\ call'.sent = (IF sendOk THEN <<"RegistrationResponse">> ELSE <<>>)
           Recorded(text) ==
               /\ Len(errors') = Len(errors) + 1
               /\ SubSeq(errors', 1, Len(errors)) = errors
               /\ errors'[Len(errors')].msg = text
       IN  /\ call'.handler = "Serve" => \A r \in RouteRegistrations, sendOk \in BOOLEAN :
                ( /\ Serve(Registration(r), sendOk)
                  /\ r.api \in DOMAIN routes
                  /\ \E i \in DOMAIN routes[r.api] :
                        /\ routes[r.api][i].path = r.path
                        /\ \E a \in DOMAIN routes[r.api][i].methods, b \in DOMAIN r.methods :
                              routes[r.api][i].methods[a] = r.methods[b] )
                => Acknowledged(sendOk) /\ Recorded("route already registered")
           /\ call'.handler = "Schedule" => \A r \in ScheduleRegistrations, sendOk \in BOOLEAN :
                (Schedule(Registration(r), sendOk) /\ r.scheduleName \in DOMAIN schedules)
                => Acknowledged(sendOk) /\ Recorded("schedule already registered")
           /\ call'.handler = "Listen" => \A r \in StorageRegistrations, sendOk \in BOOLEAN :
                (Listen(Registration(r), sendOk) /\ r.bucketName \in DOMAIN buckets)
                => Acknowledged(sendOk) /\ Recorded("bucket already registered")
           /\ call'.handler = "HandleEvents" => \A r \in WebsocketRegistrations, sendOk \in BOOLEAN :
                ( /\ HandleEvents(Registration(r), sendOk)
                  /\ r.socketName \in DOMAIN websockets
                  /\ \E i \in DOMAIN websockets[r.socketName] :
                        websockets[r.socketName][i].eventType = r.eventType )
                => Acknowledged(sendOk) /\ Recorded("websocket handler already registered")
           /\ call'.handler = "Proxy" => \A req \in ProxyRequests :
                (Proxy(req) /\ (DOMAIN routes # {} \/ proxy # Nil))
                => /\ call'.err = "nil"
                   /\ call'.sent = <<"HttpProxyResponse">>
                   /\ Len(errors') > Len(errors)
                   /\ SubSeq(errors', 1, Len(errors)) = errors
                   /\ \A i \in (Len(errors) + 1)..Len(errors') :
                         errors'[i].msg \in
                            { "cannot register HTTP proxy, API routes have already been registered",
                              "cannot register HTTP proxy, another proxy has already been registered" }
                   /\ (DOMAIN routes # {}) =>
                         \E i \in (Len(errors) + 1)..Len(errors') :
                            errors'[i].msg = "cannot register HTTP proxy, API routes have already been registered"
                   /\ (proxy # Nil) =>
                         \E i \in (Len(errors) + 1)..Len(errors') :
                            errors'[i].msg = "cannot register HTTP proxy, another proxy has already been registered"
      ]_vars

\* C11 witness: a route was registered and Proxy was called twice; both
\* Proxy calls returned the proxy response without error, and errors holds
\* the three conflicts they met.
C11_Witness ==
    /\ calls = 3
    /\ call = [handler |-> "Proxy", err |-> "nil", sent |-> <<"HttpProxyResponse">>]
    /\ DOMAIN routes # {}
    /\ Len(errors) = 3
    /\ errors[3].msg = "cannot register HTTP proxy, another proxy has already been registered"

\* C12: a Declare of a Policy without principals stores the policy with
\* exactly one principal, the declaring service (its name, the service
\* kind); a Declare of a Policy with principals stores them in order, each
\* principal of empty name and service kind given the declaring service's
\* name and every other principal as it was declared; the policy's other
\* fields are stored as declared.  No step other than a Policy declaration
\* under the same name changes a stored policy.
C12_PolicyPrincipalsBackfilled ==
    [][ /\ \A req \in PolicyDeclarations :
              Declare(req) =>
                LET given == req.config.value.principals
                    stored == policies'[req.name]
                    service == [name |-> serviceName, type |-> "Function"]
                IN  /\ DOMAIN policies' = DOMAIN policies \cup {req.name}
                    /\ DOMAIN stored = DOMAIN req.config.value
                    /\ stored.actions = req.config.value.actions
                    /\ IF given = <<>>
                       THEN stored.principals = <<service>>
                       ELSE /\ Len(stored.principals) = Len(given)
                            /\ \A i \in DOMAIN given :
                                  stored.principals[i] =
                                     IF given[i].name = "" /\ given[i].type = "Function"
                                     THEN service ELSE given[i]
        /\ \A n \in DOMAIN policies :
              \/ n \in DOMAIN policies' /\ policies'[n] = policies[n]
              \/ \E req \in PolicyDeclarations : req.name = n /\ Declare(req)
      ]_vars

\* C12 witness: policy p1 was declared with three principals, of which only
\* the one with empty name and service kind was given the service's name;
\* policy p2, declared without principals, and a bucket were declared too.
C12_Witness ==
    /\ calls = 3
    /\ DOMAIN policies = {"p1", "p2"}
    /\ policies["p1"].principals =
          << [name |-> "other", type |-> "Function"], [name |-> "", type |-> "Bucket"],
             [name |-> serviceName, type |-> "Function"] >>
    /\ policies["p2"].principals = << [name |-> serviceName, type |-> "Function"] >>
    /\ DOMAIN buckets = {"b1"}

\* C13: in every reachable state WorkerCount() is the number of API names
\* with at least one route, plus the number of storage listeners, plus the
\* number of schedules, plus the number of topic names with at least one
\* subscription, plus the number of socket names with at least one
\* websocket handler.
C13_WorkerCountCountsWorkers ==
    WorkerCount =
        Cardinality({a \in DOMAIN routes : Len(routes[a]) >= 1})
        + Cardinality(DOMAIN listeners)
        + Cardinality(DOMAIN schedules)
        + Cardinality({t \in DOMAIN subscriptions : Len(subscriptions[t]) >= 1})
        + Cardinality({w \in DOMAIN websockets : Len(websockets[w]) >= 1})

\* C13 witness: one route, and one schedule registered twice (the second
\* time recorded as a conflict): two workers.
C13_Witness ==
    /\ DOMAIN routes = {"a1"}
    /\ Len(routes["a1"]) = 1
    /\ DOMAIN schedules = {"s1"}
    /\ Len(errors) = 1
    /\ errors[1].msg = "schedule already registered"
    /\ DOMAIN listeners = {} /\ DOMAIN subscriptions = {} /\ DOMAIN websockets = {}

\* C14: every Declare call returns the empty declare response and no error;
\* a Declare of a resource kind that is not recognized leaves the whole
\* aggregate, declarations and errors included, as it was.
C14_DeclareAlwaysSucceeds ==
    [][\A req \in Declarations :
        Declare(req) =>
            /\ call'.err = "nil"
            /\ call'.sent = <<"ResourceDeclareResponse">>
            /\ (req.type \notin {"Bucket", "Collection", "Api", "ApiSecurityDefinition",
                                 "Secret", "Policy", "Topic"})
                  => UNCHANGED aggregate
      ]_vars

\* C14 witness: two schedules were registered and the third call, a Declare
\* that returned success, left every declaration mapping empty.
C14_Witness ==
    /\ calls = 3
    /\ call = [handler |-> "Declare", err |-> "nil", sent |-> <<"ResourceDeclareResponse">>]
    /\ DOMAIN schedules = {"s1", "s2"}
    /\ errors = <<>>
    /\ \A m \in {buckets, collections, apis, apiSecurityDefinition, secrets,
                 policies, topics} : DOMAIN m = {}

\* C15: a Declare of an API security definition that names no owning API
\* returns an error to its caller and leaves apiSecurityDefinition as it
\* was.
C15_SecurityDefinitionNeedsApi ==
    [][\A req \in SecurityDeclarations :
        (Declare(req) /\ req.config.value.apiName = "") =>
            /\ call'.err # "nil"
            /\ apiSecurityDefinition' = apiSecurityDefinition
      ]_vars

\* C16: every Stop succeeds; after a Stop the supervisor holds no process
\* handle; and the subprocess is sent at most one kill, however many times
\* Stop is called.
C16_StopIdempotent ==
    [][\A killOk \in BOOLEAN :
        Stop(killOk) =>
            /\ stops'[Len(stops')] = "nil"
            /\ provProc'.process = Nil
            /\ subprocess'.kills <= 1
      ]_vars

\* C17: when StartProviderExecutable has returned for a path that cannot be
\* stat-ed, or for a file that is not regular, or (except on windows) for a
\* regular file without any execute bit, it returned an error and no
\* supervisor, no probe listener was opened and no subprocess launched.
C17_NotExecutableStartsNothing ==
    (startPc = "returned" /\
        ( IF fileInfo.err # "nil" THEN TRUE
          ELSE \/ fileInfo.mode.type # ""
               \/ /\ goos # "windows"
                  /\ (fileInfo.mode.perm \div 64) % 2 = 0
                  /\ (fileInfo.mode.perm \div 8) % 2 = 0
                  /\ fileInfo.mode.perm % 2 = 0 ))
    => /\ started.provProc = Nil
       /\ started.err \notin {"nil", "none"}
       /\ provProc = Nil
       /\ lis = Nil
       /\ cmd = Nil
       /\ subprocess.state = "none"

\* C17 witness: on linux, a regular file with mode 0644 was refused.
C17_Witness ==
    /\ startPc = "returned"
    /\ goos = "linux"
    /\ fileInfo = [err |-> "nil", mode |-> [type |-> "", perm |-> 420]]
    /\ started = [provProc |-> Nil, err |-> "provider binary is not executable"]

\* C18: when port allocation, the closing of the probe listener or the
\* launch of the subprocess has failed, StartProviderExecutable returned the
\* error and no supervisor, and the process handle is unset; whenever
\* StartProviderExecutable returned a supervisor, it returned no error, the
\* subprocess was launched and the supervisor holds its handle.
C18_FailedLaunchReturnsNoSupervisor ==
    /\ started.err \in {"listen failed", "close failed", "start failed"}
          => /\ started.provProc = Nil
             /\ provProc.process = Nil
             /\ subprocess.state = "none"
    /\ started.provProc # Nil
          => /\ started.err = "nil"
             /\ provProc.process # Nil
             /\ subprocess.state # "none"

\* C18 witness: the probe listener was closed and the launch failed.
C18_Witness ==
    /\ startPc = "returned"
    /\ lis # Nil
    /\ lis.state = "closed"
    /\ started = [provProc |-> Nil, err |-> "start failed"]
    /\ provProc.process = Nil

\* C19: a streaming handler that has sent the registration acknowledgment
\* does not return: no call of Serve, Schedule, Subscribe, Listen or
\* HandleEvents has returned (and so ended its stream) after acknowledging.
C19_AcknowledgedStreamStaysOpen ==
    ~( /\ call.handler \in {"Serve", "Schedule", "Subscribe", "Listen", "HandleEvents"}
       /\ call.sent = <<"RegistrationResponse">> )

\* C20: no two concurrent callers are at the same time between the lookup
\* of their read-check-mutate sequence on the aggregate and the end of its
\* assignment.
C20_MutuallyExclusive ==
    LET InSequence(p) ==
            pc[p] \in {"readErrors", "appendError", "assign", "store"}
    IN  \A p, q \in Callers : (InSequence(p) /\ InSequence(q)) => p = q

\* C21: when exactly two concurrent callers have completed a Serve
\* registration for the same API: if the two registrations share a method
\* and have the same path, one route is stored and one conflict error
\* recorded; otherwise both routes are stored and no error is recorded.
C21_ConcurrentServeDoesNotRace ==
    \A p, q \in Callers :
        ( /\ p # q
          /\ pc[p] = "done" /\ local[p].registrationRequest # Nil
          /\ pc[q] = "done" /\ local[q].registrationRequest # Nil
          /\ local[p].registrationRequest.api = local[q].registrationRequest.api
          /\ \A o \in Callers \ {p, q} : pc[o] = "idle" )
        => LET rp == local[p].registrationRequest
               rq == local[q].registrationRequest
               conflict ==
                   /\ rp.path = rq.path
                   /\ \E a \in DOMAIN rp.methods, b \in DOMAIN rq.methods :
                         rp.methods[a] = rq.methods[b]
           IN  /\ rp.api \in DOMAIN routes
               /\ IF conflict
                  THEN /\ Len(routes[rp.api]) = 1
                       /\ routes[rp.api][1] \in {rp, rq}
                       /\ Len(errors) = 1
                  ELSE /\ Len(routes[rp.api]) = 2
                       /\ {routes[rp.api][1], routes[rp.api][2]} = {rp, rq}
                       /\ errors = <<>>

\* C22: errors is empty in a newly created aggregate, and every handler
\* call leaves errors at least as long as it was, with every entry that was
\* present still at its position.
C22_ErrorsAppendOnly ==
    [][ /\ calls = 0 => errors = <<>>
        /\ Len(errors') >= Len(errors)
        /\ \A i \in DOMAIN errors : errors'[i] = errors[i]
      ]_vars

\* C22 witness: a schedule conflict was recorded, and then a Proxy call on an
\* aggregate without routes or proxy left it in place.
C22_Witness ==
    /\ calls = 3
    /\ call.handler = "Proxy"
    /\ proxy # Nil
    /\ errors = << [msg |-> "schedule already registered", name |-> "s1"] >>

\* C23: in startProcess the port is recorded only once the probe listener
\* has been opened, and Address and the PORT entry of the environment map
\* carry the listener's port; the listener is closed only after the port
\* was recorded; and a launched subprocess was launched with the probe
\* listener closed and with a PORT variable equal to the port in Address.
C23_ProbeClosedBeforeLaunch ==
    LET Text(port) == CASE port = 8080 -> "8080" [] port = 40001 -> "40001"
        Recorded ==
            /\ lis # Nil
            /\ provProc.Address = "127.0.0.1:" \o Text(lis.port)
            /\ DOMAIN provProc.envMap = {"PORT"}
            /\ provProc.envMap["PORT"] = Text(lis.port)
    IN  /\ (provProc # Nil /\ provProc.Address # "") => Recorded
        /\ (lis # Nil /\ lis.state = "closed") => Recorded
        /\ (subprocess.state # "none") =>
              /\ Recorded
              /\ lis.state = "closed"
              /\ subprocess.probe = "closed"
              /\ subprocess.env[Len(subprocess.env)] = "PORT=" \o Text(lis.port)
              /\ \A i \in 1..(Len(subprocess.env) - 1) :
                    subprocess.env[i] = "PATH=/usr/bin"

\* C23 witness: the subprocess runs, launched after the probe listener on
\* port 40001 was closed, with PORT=40001.
C23_Witness ==
    /\ startPc = "returned"
    /\ subprocess.state = "running"
    /\ subprocess.probe = "closed"
    /\ subprocess.env = <<"PATH=/usr/bin", "PORT=40001">>
    /\ provProc.Address = "127.0.0.1:40001"
    /\ stops = <<>>

\* C24: in every streaming handler the effect of a well-formed registration
\* (the registration stored, or the conflict recorded) is in the aggregate
\* when the call ends, whether the sending of the acknowledgment succeeded
\* or failed; the caller is sent the acknowledgment exactly when the send
\* succeeds, so an acknowledged registration always has its effect in the
\* aggregate.
C24_EffectBeforeAcknowledgment ==
    [][\A sendOk \in BOOLEAN :
        LET Outcome ==
                /\ call'.sent = (IF sendOk THEN <<"RegistrationResponse">> ELSE <<>>)
                /\ call'.err = (IF sendOk THEN "nil" ELSE "send failed")
            Conflict == /\ Len(errors') = Len(errors) + 1
                        /\ SubSeq(errors', 1, Len(errors)) = errors
            Last(s) == s[Len(s)]
        IN  /\ call'.handler = "Serve" => \A r \in RouteRegistrations :
                 Serve(Registration(r), sendOk) =>
                    /\ Outcome
                    /\ \/ Conflict /\ routes' = routes
                       \/ /\ errors' = errors
                          /\ r.api \in DOMAIN routes'
                          /\ Last(routes'[r.api]) = r
            /\ call'.handler = "Schedule" => \A r \in ScheduleRegistrations :
                 Schedule(Registration(r), sendOk) =>
                    /\ Outcome
                    /\ r.scheduleName \in DOMAIN schedules'
                    /\ schedules'[r.scheduleName] = r
            /\ call'.handler = "Subscribe" => \A r \in TopicRegistrations :
                 Subscribe(Registration(r), sendOk) =>
                    /\ Outcome
                    /\ r.topicName \in DOMAIN subscriptions'
                    /\ Last(subscriptions'[r.topicName]) = r
                    /\ Len(subscriptions'[r.topicName]) =
                          1 + (IF r.topicName \in DOMAIN subscriptions
                               THEN Len(subscriptions[r.topicName]) ELSE 0)
            /\ call'.handler = "Listen" => \A r \in StorageRegistrations :
                 Listen(Registration(r), sendOk) =>
                    /\ Outcome
                    /\ \/ Conflict /\ listeners' = listeners
                       \/ /\ errors' = errors
                          /\ r.bucketName \in DOMAIN listeners'
                          /\ listeners'[r.bucketName] = r
            /\ call'.handler = "HandleEvents" => \A r \in WebsocketRegistrations :
                 HandleEvents(Registration(r), sendOk) =>
                    /\ Outcome
                    /\ \/ Conflict /\ websockets' = websockets
                       \/ /\ errors' = errors
                          /\ r.socketName \in DOMAIN websockets'
                          /\ Last(websockets'[r.socketName]) = r
      ]_vars

\* C24 witness: the second Schedule call for s1 failed to send its
\* acknowledgment; its registration replaced the first and its conflict was
\* recorded all the same.
C24_Witness ==
    /\ calls = 2
    /\ call = [handler |-> "Schedule", err |-> "send failed", sent |-> <<>>]
    /\ DOMAIN schedules = {"s1"}
    /\ schedules["s1"].cadence = "q"
    /\ errors = << [msg |-> "schedule already registered", name |-> "s1"] >>

\* C25: each handler call changes only its own part of the aggregate: Serve
\* only routes and errors, Schedule only schedules and errors, Subscribe only
\* subscriptions, Listen only listeners and errors, HandleEvents only
\* websockets and errors, Proxy only proxy and errors, and Declare only the
\* declaration mapping of the declared kind (none for an unrecognized kind);
\* serviceName and serviceType never change.  call'.handler names the handler
\* whose call the step is.
C25_HandlersChangeOwnPartOnly ==
    [][ /\ UNCHANGED <<serviceName, serviceType>>
        /\ call'.handler = "Serve" =>
              UNCHANGED <<schedules, subscriptions, websockets, listeners, proxy, declared>>
        /\ call'.handler = "Schedule" =>
              UNCHANGED <<routes, subscriptions, websockets, listeners, proxy, declared>>
        /\ call'.handler = "Subscribe" =>
              UNCHANGED <<routes, schedules, websockets, listeners, proxy, errors, declared>>
        /\ call'.handler = "Listen" =>
              UNCHANGED <<routes, schedules, subscriptions, websockets, proxy, declared>>
        /\ call'.handler = "HandleEvents" =>
              UNCHANGED <<routes, schedules, subscriptions, listeners, proxy, declared>>
        /\ call'.handler = "Proxy" =>
              UNCHANGED <<routes, schedules, subscriptions, websockets, listeners, declared>>
        /\ call'.handler = "Declare" =>
              /\ UNCHANGED <<routes, schedules, subscriptions, websockets, listeners,
                             proxy, errors>>
              /\ \A req \in Declarations :
                    Declare(req) =>
                       /\ req.type # "Api" => UNCHANGED apis
                       /\ req.type # "ApiSecurityDefinition" => UNCHANGED apiSecurityDefinition
                       /\ req.type # "Bucket" => UNCHANGED buckets
                       /\ req.type # "Collection" => UNCHANGED collections
                       /\ req.type # "Topic" => UNCHANGED topics
                       /\ req.type # "Policy" => UNCHANGED policies
                       /\ req.type # "Secret" => UNCHANGED secrets
      ]_vars

\* C25 witness: a route, a proxy and a topic declaration are in the
\* aggregate together, each left in place by the calls that followed it.
C25_Witness ==
    /\ calls = 3
    /\ DOMAIN routes = {"a2"}
    /\ proxy = [host |-> "h2"]
    /\ DOMAIN topics = {"t1"}
    /\ serviceName = "svc"
    /\ serviceType = "default"

====
